---- MODULE Spec2Model ----
(***************************************************************************)
(* The draw-call batching and coordinate-transform engine of ezgui:        *)
(* GfxCtx (the per-frame rendering context), its Uniforms block, GeomBatch *)
(* and Prerender (the buffer uploader), from ezgui/src/drawing.rs.         *)
(*                                                                         *)
(* Numbers: an f64 is an integer; an f32 is an integer that AsF32 leaves   *)
(* unchanged.  Option<T> is a sequence of length 0 (None) or 1 (Some).     *)
(***************************************************************************)
EXTENDS Integers, Sequences, FiniteSets

(* ------------------------------ bounds -------------------------------- *)
\* largest camera coordinate of a Canvas
MaxCam == 3
\* largest zoom of a Canvas or of a fork
MaxZoom == 2
\* draw calls issued on one context
MaxDraws == 2
\* uploads made through one Prerender
MaxUploads == 3
\* (fill, polygon) pairs in one list handed to the Prerender
MaxBatch == 2
\* the smaller window dimension of a Canvas
MinWindow == 3
\* the integers an f32 holds exactly reach up to here (2^24 in the build);
\* beyond it an f32 holds only every second integer
F32Exact == 2
\* thickness of the lines drawn
Thickness == 2

(* --------------------------- program constants ------------------------ *)
NO_HATCHING == 0
HATCHING == 1
SCREENSPACE == 2

\* size_of::<Vertex>(): position [f32; 2] and style [f32; 4]
VertexSize == 24
\* size_of::<u32>(), the index type of Drawable.index_buffer
IndexSize == 4

(* ------------------------------ numbers ------------------------------- *)
\* `x as f32`: exact within the f32's integer range, rounded toward zero to an
\* even integer outside it
AsF32(x) ==
    IF x >= -F32Exact /\ x <= F32Exact THEN x
    ELSE IF x > 0 THEN x - (x % 2)
    ELSE -((-x) - ((-x) % 2))

\* the f64 quotient n / d, kept as the pair: d = 0 is the non-finite quotient
Div(n, d) == <<n, d>>

Min(S) == CHOOSE x \in S : \A y \in S : x <= y
Max(S) == CHOOSE x \in S : \A y \in S : x >= y

(* ------------------------------- Color -------------------------------- *)
RGBA(r, g, b, a) == [kind |-> "RGBA", r |-> r, g |-> g, b |-> b, a |-> a]
Texture(id) == [kind |-> "Texture", id |-> id]

\* the fills callers draw with: opaque red, Color::TRANSPARENT-like
\* RGBA(0, 0, 0, 0), and the atlas texture 1
Colors == {RGBA(1, 0, 0, 1), RGBA(0, 0, 0, 0), Texture(1)}

(* ------------------------------ geometry ------------------------------ *)
\* A Polygon as raw_for_rendering hands it out: its points and the triangle
\* indices into them.
Triangle == [pts |-> <<<<0, 0>>, <<4, 0>>, <<0, 3>>>>, indices |-> <<0, 1, 2>>]
Square ==
    [pts |-> <<<<1, 1>>, <<2, 1>>, <<2, 2>>, <<1, 2>>>>,
     indices |-> <<0, 1, 2, 0, 2, 3>>]
\* a polygon all of whose points share one x: its bounding box has no width
Sliver == [pts |-> <<<<1, 0>>, <<1, 1>>, <<1, 2>>>>, indices |-> <<0, 1, 2>>]
Polygons == {Triangle, Square, Sliver}

raw_for_rendering(poly) == <<poly.pts, poly.indices>>

get_bounds(poly) ==
    LET xs == {poly.pts[k][1] : k \in 1..Len(poly.pts)}
        ys == {poly.pts[k][2] : k \in 1..Len(poly.pts)}
    IN  [min_x |-> Min(xs), max_x |-> Max(xs), min_y |-> Min(ys), max_y |-> Max(ys)]

\* Lines: pt1 = pt2 is the degenerate line (zero length, no direction)
ProperLine == [pt1 |-> <<0, 0>>, pt2 |-> <<2, 0>>]
PointLine == [pt1 |-> <<1, 1>>, pt2 |-> <<1, 1>>]
Lines == {ProperLine, PointLine}

\* Line::make_polygons: the rectangle of the given thickness around the line
make_polygons(line, thickness) ==
    LET h == thickness \div 2
    IN  [pts |-> <<<<line.pt1[1], line.pt1[2] - h>>, <<line.pt2[1], line.pt2[2] - h>>,
                   <<line.pt2[1], line.pt2[2] + h>>, <<line.pt1[1], line.pt1[2] + h>>>>,
         indices |-> <<0, 1, 2, 2, 3, 0>>]

\* Circle::to_polygon: a fan around the centre
to_polygon(center, radius) ==
    [pts |-> <<center, <<center[1] + radius, center[2]>>, <<center[1], center[2] + radius>>,
               <<center[1] - radius, center[2]>>, <<center[1], center[2] - radius>>>>,
     indices |-> <<0, 1, 2, 0, 2, 3, 0, 3, 4, 0, 4, 1>>]

\* PolyLine::make_arrow: None for a degenerate line, else the shaft with its head
make_arrow(line, thickness) ==
    IF line.pt1 = line.pt2 THEN <<>>
    ELSE LET body == make_polygons(line, thickness)
         IN  <<[pts |-> body.pts \o <<<<line.pt2[1], line.pt2[2] - thickness>>,
                                      <<line.pt2[1] + thickness, line.pt2[2]>>,
                                      <<line.pt2[1], line.pt2[2] + thickness>>>>,
                indices |-> body.indices \o <<4, 5, 6>>]>>

(* ------------------------------ Uniforms ------------------------------ *)
Uniforms_new(cv) ==
    [transform |-> <<AsF32(cv.cam_x), AsF32(cv.cam_y), AsF32(cv.cam_zoom)>>,
     window |-> <<AsF32(cv.window_width), AsF32(cv.window_height), NO_HATCHING>>]

(* ------------------------------- GfxCtx ------------------------------- *)
GfxCtx_new(cv, screencap_mode) ==
    [uniforms |-> Uniforms_new(cv),
     screencap_mode |-> screencap_mode,
     naming_hint |-> <<>>,
     num_draw_calls |-> 0,
     hatching |-> NO_HATCHING]

fork(ctx, cv, top_left_map, top_left_screen, zoom) ==
    LET cam_x == (top_left_map[1] * zoom) - top_left_screen[1]
        cam_y == (top_left_map[2] * zoom) - top_left_screen[2]
    IN  [ctx EXCEPT !.uniforms =
            [transform |-> <<AsF32(cam_x), AsF32(cam_y), AsF32(zoom)>>,
             window |-> <<AsF32(cv.window_width), AsF32(cv.window_height), SCREENSPACE>>]]

\* fork_screenspace that rebuilds the context instead of editing its uniforms
fork_screenspace_rebuilds(ctx, cv) ==
    [GfxCtx_new(cv, ctx.screencap_mode) EXCEPT !.uniforms =
        [transform |-> <<0, 0, 1>>,
         window |-> <<AsF32(cv.window_width), AsF32(cv.window_height), SCREENSPACE>>]]

\* fork_screenspace that keeps the camera's pan
fork_screenspace_pans(ctx, cv) ==
    [ctx EXCEPT !.uniforms =
        [transform |-> <<AsF32(cv.cam_x), AsF32(cv.cam_y), 1>>,
         window |-> <<AsF32(cv.window_width), AsF32(cv.window_height), SCREENSPACE>>]]

fork_screenspace(ctx, cv) ==
    [ctx EXCEPT !.uniforms =
        [transform |-> <<0, 0, 1>>,
         window |-> <<AsF32(cv.window_width), AsF32(cv.window_height), SCREENSPACE>>]]

\* unfork that resets the mode and keeps the transform
unfork_keeps_transform(ctx, cv) ==
    [ctx EXCEPT !.uniforms = [ctx.uniforms EXCEPT !.window[3] = ctx.hatching]]

\* unfork without its second statement
unfork_forgets_hatching(ctx, cv) ==
    [ctx EXCEPT !.uniforms = Uniforms_new(cv)]

unfork(ctx, cv) ==
    [ctx EXCEPT !.uniforms = [Uniforms_new(cv) EXCEPT !.window[3] = ctx.hatching]]

\* enable_hatching without its assertion
enable_hatching_unchecked(ctx, cv) ==
    [panic |-> FALSE, ctx |-> unfork([ctx EXCEPT !.hatching = HATCHING], cv)]

\* assert_eq!(self.hatching, NO_HATCHING) and its twin: panic |-> TRUE is the
\* failed assertion, which leaves the context as it was
enable_hatching(ctx, cv) ==
    IF ctx.hatching = NO_HATCHING
    THEN [panic |-> FALSE, ctx |-> unfork([ctx EXCEPT !.hatching = HATCHING], cv)]
    ELSE [panic |-> TRUE, ctx |-> ctx]

disable_hatching(ctx, cv) ==
    IF ctx.hatching = HATCHING
    THEN [panic |-> FALSE, ctx |-> unfork([ctx EXCEPT !.hatching = NO_HATCHING], cv)]
    ELSE [panic |-> TRUE, ctx |-> ctx]

\* the two assert!s of set_screencap_naming_hint
set_screencap_naming_hint(ctx, hint) ==
    IF ctx.screencap_mode /\ ctx.naming_hint = <<>>
    THEN [panic |-> FALSE, ctx |-> [ctx EXCEPT !.naming_hint = <<hint>>]]
    ELSE [panic |-> TRUE, ctx |-> ctx]

\* clear: unreachable!() for a fill that is no RGBA color
clear(frame, color) ==
    IF color.kind = "RGBA"
    THEN [panic |-> FALSE, frame |-> [frame EXCEPT !.cleared = TRUE]]
    ELSE [panic |-> TRUE, frame |-> frame]

\* redraw that does not count its draw
redraw_uncounted(ctx, frame) ==
    [ctx |-> ctx,
     frame |-> [frame EXCEPT !.num_draws = @ + 1],
     passed |-> <<ctx.uniforms>>]

\* redraw: one target.draw with the context's uniforms, then the counter
redraw(ctx, frame) ==
    [ctx |-> [ctx EXCEPT !.num_draw_calls = @ + 1],
     frame |-> [frame EXCEPT !.num_draws = @ + 1],
     passed |-> <<ctx.uniforms>>]

(* ------------------------------ Prerender ----------------------------- *)
\* the style of one vertex of a polygon filled with color
style_of(color, poly, pt) ==
    IF color.kind = "RGBA" THEN <<color.r, color.g, color.b, color.a>>
    ELSE LET b == get_bounds(poly)
         IN  <<color.id,
               Div(pt[1] - b.min_x, b.max_x - b.min_x),
               Div(pt[2] - b.min_y, b.max_y - b.min_y),
               0>>

\* the loop without idx_offset: every polygon's indices are pushed raw
RECURSIVE upload_loop_raw_indices(_, _, _)
upload_loop_raw_indices(list, vertices, indices) ==
    IF list = <<>> THEN [vertices |-> vertices, indices |-> indices]
    ELSE LET color == Head(list)[1]
             poly == Head(list)[2]
             pts == raw_for_rendering(poly)[1]
             raw_indices == raw_for_rendering(poly)[2]
         IN  upload_loop_raw_indices(
                 Tail(list),
                 vertices \o [k \in 1..Len(pts) |->
                     [position |-> <<AsF32(pts[k][1]), AsF32(pts[k][2])>>,
                      style |-> style_of(color, poly, pts[k])]],
                 indices \o raw_indices)

\* the loop over the list: the vertices and indices each (color, poly) pair
\* adds, given the vertices pushed so far.  The `as u32` of an index is exact:
\* the lists here stay far below 2^32 vertices.
RECURSIVE upload_loop(_, _, _)
upload_loop(list, vertices, indices) ==
    IF list = <<>> THEN [vertices |-> vertices, indices |-> indices]
    ELSE LET color == Head(list)[1]
             poly == Head(list)[2]
             idx_offset == Len(vertices)
             pts == raw_for_rendering(poly)[1]
             raw_indices == raw_for_rendering(poly)[2]
         IN  upload_loop(
                 Tail(list),
                 vertices \o [k \in 1..Len(pts) |->
                     [position |-> <<AsF32(pts[k][1]), AsF32(pts[k][2])>>,
                      style |-> style_of(color, poly, pts[k])]],
                 indices \o [k \in 1..Len(raw_indices) |->
                     idx_offset + raw_indices[k]])

\* actually_upload that counts the bytes of transient buffers too
actually_upload_counts_all(pr, permanent, list) ==
    LET bufs == upload_loop(list, <<>>, <<>>)
        size == Len(bufs.vertices) * VertexSize + Len(bufs.indices) * IndexSize
    IN  [prerender |->
            [num_uploads |-> pr.num_uploads + 1,
             total_bytes_uploaded |-> pr.total_bytes_uploaded + size],
         drawable |->
            [vertex_buffer |-> bufs.vertices,
             index_buffer |-> bufs.indices,
             permanent |-> permanent]]

actually_upload(pr, permanent, list) ==
    LET bufs == upload_loop(list, <<>>, <<>>)
        size == Len(bufs.vertices) * VertexSize + Len(bufs.indices) * IndexSize
    IN  [prerender |->
            [num_uploads |-> pr.num_uploads + 1,
             total_bytes_uploaded |->
                IF permanent THEN pr.total_bytes_uploaded + size
                ELSE pr.total_bytes_uploaded],
         drawable |->
            [vertex_buffer |-> bufs.vertices,
             index_buffer |-> bufs.indices,
             permanent |-> permanent]]

upload_borrowed(pr, list) == actually_upload(pr, TRUE, list)
upload(pr, batch) == actually_upload(pr, TRUE, batch)
upload_temporary(pr, list) == actually_upload(pr, FALSE, list)

(* ------------------------------- inputs ------------------------------- *)
\* Canvas states: two cameras, two window sizes
Cameras == {<<0, 0, 1>>, <<MaxCam, 1, MaxZoom>>}
Windows == {<<MinWindow + 1, MinWindow>>, <<MinWindow + 3, MinWindow>>}
Canvases ==
    {[cam_x |-> c[1], cam_y |-> c[2], cam_zoom |-> c[3],
      window_width |-> w[1], window_height |-> w[2]] : c \in Cameras, w \in Windows}

\* arguments of fork
MapPts == {<<MaxCam, 1>>}
ScreenPts == {<<1, 0>>}
Zooms == {1, MaxZoom}

\* every list of at most MaxBatch (fill, polygon) pairs
Pairs == Colors \X {Triangle, Square}
Batches == UNION {[1..n -> Pairs] : n \in 0..MaxBatch}
\* the batch scene code draws and uploads through a context: squares of one color
SceneBatches == {[k \in 1..MaxBatch |-> <<RGBA(1, 0, 0, 1), Square>>]}
\* the polygon lists of draw_polygons
PolygonLists == UNION {[1..n -> {Triangle}] : n \in 0..MaxBatch}

(* ------------------------------- state -------------------------------- *)
VARIABLES
    canvas,     \* canvas[i]: the Canvas context i borrows
    g,          \* g[i]: the GfxCtx of frame i
    target,     \* target[i]: the glium::Frame context i draws to
    prerender,  \* the Prerender all contexts share: its two counters
    obj,        \* the Drawable the caller holds: None, or the last one returned
    call,       \* call[i]: the last call made on context i
    panicked    \* a panic has ended the program

vars == <<canvas, g, target, prerender, obj, call, panicked>>

Ctxs == DOMAIN g

\* the record of a call: the operation; whether it returned (ok) or panicked;
\* for a fork, and for an unfork that directly follows a fork, the Uniform
\* Block from before that fork; for a redraw, the uniforms handed to
\* target.draw; for a Prerender upload, the list uploaded; for a call that
\* takes a line, whether the line was degenerate
Call(op) ==
    [op |-> op, ok |-> TRUE, pre_fork |-> <<>>, passed |-> <<>>, list |-> <<>>,
     degenerate |-> FALSE]

Frame_new == [num_draws |-> 0, cleared |-> FALSE]
Prerender_new == [num_uploads |-> 0, total_bytes_uploaded |-> 0]

InitCtxs(n, canvases, screencaps) ==
    /\ canvas \in [1..n -> canvases]
    /\ \E sm \in [1..n -> screencaps] : g = [i \in 1..n |-> GfxCtx_new(canvas[i], sm[i])]
    /\ target = [i \in 1..n |-> Frame_new]
    /\ prerender = Prerender_new
    /\ obj = <<>>
    /\ call = [i \in 1..n |-> Call("new")]
    /\ panicked = FALSE

\* one frame: one context over any Canvas
Init == InitCtxs(1, Canvases, BOOLEAN)

(* ------------------------------ actions ------------------------------- *)
CanDraw(i) == g[i].num_draw_calls < MaxDraws /\ prerender.num_uploads < MaxUploads
CanUpload == prerender.num_uploads < MaxUploads

Fork(i) ==
    /\ ~panicked
    /\ \E m \in MapPts, s \in ScreenPts, z \in Zooms :
          g' = [g EXCEPT ![i] = fork(g[i], canvas[i], m, s, z)]
    /\ call' = [call EXCEPT ![i] = [Call("fork") EXCEPT !.pre_fork = <<g[i].uniforms>>]]
    /\ UNCHANGED <<canvas, target, prerender, obj, panicked>>

ForkScreenspace(i) ==
    /\ ~panicked
    /\ g' = [g EXCEPT ![i] = fork_screenspace(g[i], canvas[i])]
    /\ call' = [call EXCEPT ![i] = Call("fork_screenspace")]
    /\ UNCHANGED <<canvas, target, prerender, obj, panicked>>

Unfork(i) ==
    /\ ~panicked
    /\ g' = [g EXCEPT ![i] = unfork(g[i], canvas[i])]
    /\ call' = [call EXCEPT ![i] =
          [Call("unfork") EXCEPT !.pre_fork =
              IF call[i].op = "fork" THEN call[i].pre_fork ELSE <<>>]]
    /\ UNCHANGED <<canvas, target, prerender, obj, panicked>>

EnableHatching(i) ==
    /\ ~panicked
    /\ LET r == enable_hatching(g[i], canvas[i])
       IN  /\ g' = [g EXCEPT ![i] = r.ctx]
           /\ panicked' = r.panic
           /\ call' = [call EXCEPT ![i] = [Call("enable_hatching") EXCEPT !.ok = ~r.panic]]
    /\ UNCHANGED <<canvas, target, prerender, obj>>

DisableHatching(i) ==
    /\ ~panicked
    /\ LET r == disable_hatching(g[i], canvas[i])
       IN  /\ g' = [g EXCEPT ![i] = r.ctx]
           /\ panicked' = r.panic
           /\ call' = [call EXCEPT ![i] = [Call("disable_hatching") EXCEPT !.ok = ~r.panic]]
    /\ UNCHANGED <<canvas, target, prerender, obj>>

Clear(i) ==
    /\ ~panicked
    /\ \E color \in Colors :
          LET r == clear(target[i], color)
          IN  /\ target' = [target EXCEPT ![i] = r.frame]
              /\ panicked' = r.panic
              /\ call' = [call EXCEPT ![i] = [Call("clear") EXCEPT !.ok = ~r.panic]]
    /\ UNCHANGED <<canvas, g, prerender, obj>>

SetScreencapNamingHint(i) ==
    /\ ~panicked
    /\ LET r == set_screencap_naming_hint(g[i], "hint")
       IN  /\ g' = [g EXCEPT ![i] = r.ctx]
           /\ panicked' = r.panic
           /\ call' = [call EXCEPT ![i] = [Call("set_screencap_naming_hint") EXCEPT !.ok = ~r.panic]]
    /\ UNCHANGED <<canvas, target, prerender, obj>>

\* upload_temporary(list), then redraw of the Drawable, which is dropped on return
DrawList(i, op, list) ==
    LET up == upload_temporary(prerender, list)
        rd == redraw(g[i], target[i])
    IN  /\ prerender' = up.prerender
        /\ g' = [g EXCEPT ![i] = rd.ctx]
        /\ target' = [target EXCEPT ![i] = rd.frame]
        /\ call' = [call EXCEPT ![i] = [Call(op) EXCEPT !.passed = rd.passed]]
        /\ UNCHANGED <<canvas, obj, panicked>>

\* draw_polygon(color, poly)
draw_polygon(i, op, color, poly) == DrawList(i, op, <<<<color, poly>>>>)

\* draw_polygons(color, polygons)
draw_polygons(i, op, color, polygons) ==
    DrawList(i, op, [k \in 1..Len(polygons) |-> <<color, polygons[k]>>])

DrawPolygon(i) ==
    /\ ~panicked /\ CanDraw(i)
    /\ \E color \in Colors, poly \in Polygons : draw_polygon(i, "draw_polygon", color, poly)

DrawPolygons(i) ==
    /\ ~panicked /\ CanDraw(i)
    /\ \E color \in Colors, polygons \in PolygonLists :
          draw_polygons(i, "draw_polygons", color, polygons)

DrawLine(i) ==
    /\ ~panicked /\ CanDraw(i)
    /\ \E color \in Colors :
          draw_polygon(i, "draw_line", color, make_polygons(ProperLine, Thickness))

DrawRoundedLine(i) ==
    /\ ~panicked /\ CanDraw(i)
    /\ \E color \in Colors :
          draw_polygons(i, "draw_rounded_line", color,
              <<make_polygons(ProperLine, Thickness),
                to_polygon(ProperLine.pt1, Thickness \div 2),
                to_polygon(ProperLine.pt2, Thickness \div 2)>>)

DrawCircle(i) ==
    /\ ~panicked /\ CanDraw(i)
    /\ \E color \in Colors :
          draw_polygon(i, "draw_circle", color, to_polygon(<<1, 1>>, Thickness))

\* draw_arrow: make_arrow(thickness).unwrap() panics on None, before any upload
DrawArrow(i) ==
    /\ ~panicked /\ CanDraw(i)
    /\ \E color \in Colors, line \in Lines :
          LET arrow == make_arrow(line, Thickness)
          IN  IF arrow = <<>>
              THEN /\ panicked' = TRUE
                   /\ call' = [call EXCEPT ![i] =
                         [Call("draw_arrow") EXCEPT !.ok = FALSE, !.degenerate = TRUE]]
                   /\ UNCHANGED <<canvas, g, target, prerender, obj>>
              ELSE draw_polygon(i, "draw_arrow", color, arrow[1])

\* redraw(&obj) of the Drawable the caller holds
Redraw(i) ==
    /\ ~panicked /\ g[i].num_draw_calls < MaxDraws
    /\ obj # <<>>
    /\ LET rd == redraw(g[i], target[i])
       IN  /\ g' = [g EXCEPT ![i] = rd.ctx]
           /\ target' = [target EXCEPT ![i] = rd.frame]
           /\ call' = [call EXCEPT ![i] = [Call("redraw") EXCEPT !.passed = rd.passed]]
    /\ UNCHANGED <<canvas, prerender, obj, panicked>>

\* GeomBatch::draw(self, g)
GeomBatchDraw(i) ==
    /\ ~panicked /\ CanDraw(i)
    /\ \E batch \in SceneBatches : DrawList(i, "GeomBatch::draw", batch)

\* what a call that returns a Drawable leaves behind
Returned(i, op, up, list) ==
    /\ prerender' = up.prerender
    /\ obj' = <<up.drawable>>
    /\ call' = [call EXCEPT ![i] = [Call(op) EXCEPT !.list = list]]
    /\ UNCHANGED <<canvas, g, target, panicked>>

\* GfxCtx::upload(batch)
Upload(i) ==
    /\ ~panicked /\ CanUpload
    /\ \E batch \in SceneBatches : Returned(i, "upload", upload(prerender, batch), batch)

\* g.prerender.upload_borrowed(list), .upload(batch), .upload_temporary(list)
PrerenderUploadBorrowed(i, lists) ==
    /\ ~panicked /\ CanUpload
    /\ \E list \in lists :
          Returned(i, "Prerender::upload_borrowed", upload_borrowed(prerender, list), list)

PrerenderUpload(i, lists) ==
    /\ ~panicked /\ CanUpload
    /\ \E batch \in lists :
          Returned(i, "Prerender::upload", upload(prerender, batch), batch)

PrerenderUploadTemporary(i, lists) ==
    /\ ~panicked /\ CanUpload
    /\ \E list \in lists :
          Returned(i, "Prerender::upload_temporary", upload_temporary(prerender, list), list)

\* one frame of scene drawing on each context
Next ==
    \/ \E i \in Ctxs : Fork(i)
    \/ \E i \in Ctxs : ForkScreenspace(i)
    \/ \E i \in Ctxs : Unfork(i)
    \/ \E i \in Ctxs : EnableHatching(i)
    \/ \E i \in Ctxs : DisableHatching(i)
    \/ \E i \in Ctxs : Clear(i)
    \/ \E i \in Ctxs : SetScreencapNamingHint(i)
    \/ \E i \in Ctxs : DrawPolygon(i)
    \/ \E i \in Ctxs : DrawPolygons(i)
    \/ \E i \in Ctxs : DrawLine(i)
    \/ \E i \in Ctxs : DrawRoundedLine(i)
    \/ \E i \in Ctxs : DrawCircle(i)
    \/ \E i \in Ctxs : DrawArrow(i)
    \/ \E i \in Ctxs : Redraw(i)
    \/ \E i \in Ctxs : GeomBatchDraw(i)
    \/ \E i \in Ctxs : Upload(i)
    \/ \E i \in Ctxs : PrerenderUploadBorrowed(i, SceneBatches)
    \/ \E i \in Ctxs : PrerenderUploadTemporary(i, SceneBatches)

Spec == Init /\ [][Next]_vars

\* The Prerender's three entry points, each applied to any list of fills and
\* polygons.  The Prerender outlives the frames: it comes with the uploads of
\* earlier frames counted, here transient ones.
InitUpload ==
    /\ canvas \in [1..1 -> {cv \in Canvases : cv.cam_x = 0 /\ cv.window_width = MinWindow + 1}]
    /\ g = [i \in 1..1 |-> GfxCtx_new(canvas[i], FALSE)]
    /\ target = [i \in 1..1 |-> Frame_new]
    /\ prerender = [Prerender_new EXCEPT !.num_uploads = MaxUploads - 1]
    /\ obj = <<>>
    /\ call = [i \in 1..1 |-> Call("new")]
    /\ panicked = FALSE

NextUpload ==
    \/ \E i \in Ctxs : PrerenderUploadBorrowed(i, Batches)
    \/ \E i \in Ctxs : PrerenderUpload(i, Batches)
    \/ \E i \in Ctxs : PrerenderUploadTemporary(i, Batches)

SpecUpload == InitUpload /\ [][NextUpload]_vars

\* Two contexts, over Canvases with one window size, that switch coordinate
\* spaces and draw.
InitPair ==
    /\ InitCtxs(2, Canvases, {FALSE})
    /\ canvas[1].window_width = canvas[2].window_width
    /\ canvas[1].window_height = canvas[2].window_height

NextPair ==
    \/ \E i \in Ctxs : Fork(i)
    \/ \E i \in Ctxs : ForkScreenspace(i)
    \/ \E i \in Ctxs : Unfork(i)
    \/ \E i \in Ctxs : EnableHatching(i)
    \/ \E i \in Ctxs : DisableHatching(i)
    \/ \E i \in Ctxs : DrawPolygon(i)

SpecPair == InitPair /\ [][NextPair]_vars

(* ============================== claims ================================ *)
\* the step is a call of op on context i
StepOn(i, op) ==
    /\ call'[i].op = op
    /\ \A j \in Ctxs \ {i} : g'[j] = g[j] /\ call'[j] = call[j] /\ target'[j] = target[j]

\* the camera and window of context i's Canvas, as the f32s of a Uniform Block
CanvasTransform(i) ==
    <<AsF32(canvas[i].cam_x), AsF32(canvas[i].cam_y), AsF32(canvas[i].cam_zoom)>>
CanvasWindow(i, mode) ==
    <<AsF32(canvas[i].window_width), AsF32(canvas[i].window_height), mode>>

\* context i has just done fork and then unfork
ForkThenUnfork(i) == call[i].op = "unfork" /\ call[i].pre_fork # <<>>

(* C1 as stated: from every reachable state of a context, fork immediately
   followed by unfork leaves the Uniform Block as it was just before the
   fork. *)
C1_ForkUnforkRestoresAnyBlock ==
    \A i \in Ctxs : ForkThenUnfork(i) => g[i].uniforms = call[i].pre_fork[1]

(* C1 amended: when no fork is in effect before the fork (the mode of the
   Uniform Block is not SCREENSPACE), fork immediately followed by unfork
   leaves the whole Uniform Block, mode included, as it was before the fork. *)
C1_ForkUnforkRestoresPrimary ==
    \A i \in Ctxs :
        (ForkThenUnfork(i) /\ call[i].pre_fork[1].window[3] # SCREENSPACE)
            => g[i].uniforms = call[i].pre_fork[1]

\* a hatched context has forked and unforked
C1_Witness ==
    \E i \in Ctxs :
        /\ ForkThenUnfork(i)
        /\ call[i].pre_fork[1].window[3] = HATCHING
        /\ g[i].uniforms = call[i].pre_fork[1]

\* what a call of enable_hatching or disable_hatching does
C2_HatchingStep ==
    \A i \in Ctxs :
        /\ StepOn(i, "enable_hatching") =>
              IF g[i].hatching = HATCHING
              THEN panicked' /\ ~call'[i].ok /\ g'[i] = g[i]
              ELSE ~panicked' /\ call'[i].ok /\ g'[i].hatching = HATCHING
        /\ StepOn(i, "disable_hatching") =>
              IF g[i].hatching = NO_HATCHING
              THEN panicked' /\ ~call'[i].ok /\ g'[i] = g[i]
              ELSE ~panicked' /\ call'[i].ok /\ g'[i].hatching = NO_HATCHING

(* C2: hatching starts disabled; enable_hatching on an enabled context and
   disable_hatching on a disabled one panic and leave the context (flag and
   Uniform Block) as it was; every other enable or disable returns and flips
   the flag. *)
C2_HatchingMachine ==
    /\ [](\A i \in Ctxs : call[i].op = "new" => g[i].hatching = NO_HATCHING)
    /\ [][C2_HatchingStep]_vars

\* a second enable_hatching, made inside a fork, has panicked
C2_Witness ==
    \E i \in Ctxs :
        /\ call[i].op = "enable_hatching" /\ ~call[i].ok /\ panicked
        /\ g[i].hatching = HATCHING
        /\ g[i].uniforms.window[3] = SCREENSPACE

(* C3: after unfork, and after an enable_hatching or disable_hatching that
   returned, the transform is the Canvas camera, the window dimensions are
   the Canvas window size, and the mode is the hatching state: HATCHING or
   NO_HATCHING, never SCREENSPACE. *)
C3_UnforkRestoresCanvas ==
    \A i \in Ctxs :
        (call[i].op \in {"unfork", "enable_hatching", "disable_hatching"} /\ call[i].ok)
            => /\ g[i].uniforms.transform = CanvasTransform(i)
               /\ g[i].uniforms.window = CanvasWindow(i, g[i].hatching)
               /\ g[i].hatching \in {NO_HATCHING, HATCHING}
               /\ g[i].uniforms.window[3] # SCREENSPACE

\* a hatched context has unforked out of a fork made inside a fork
C3_Witness ==
    \E i \in Ctxs :
        /\ ForkThenUnfork(i)
        /\ call[i].pre_fork[1].window[3] = SCREENSPACE
        /\ g[i].hatching = HATCHING
        /\ g[i].uniforms.window[3] = HATCHING

\* what a call of fork, fork_screenspace or unfork leaves alone
C4_ForkStep ==
    \A i \in Ctxs :
        (StepOn(i, "fork") \/ StepOn(i, "fork_screenspace") \/ StepOn(i, "unfork"))
            => /\ canvas' = canvas
               /\ g'[i] = [g[i] EXCEPT !.uniforms = g'[i].uniforms]
               /\ target' = target
               /\ prerender' = prerender
               /\ obj' = obj
               /\ panicked' = panicked

(* C4: fork, fork_screenspace and unfork change the Uniform Block only: the
   Canvas, the hatching flag, the draw-call counter, the naming hint, the
   screenshot flag, the frame (no draw is issued) and the Prerender's two
   counters stay as they were, and the call returns. *)
C4_ForksChangeOnlyUniforms == [][C4_ForkStep]_vars

\* a fork_screenspace on a context that has drawn, is hatched and holds a hint,
\* after a persistent upload
C4_Witness ==
    \E i \in Ctxs :
        /\ call[i].op = "fork_screenspace"
        /\ g[i].num_draw_calls > 0
        /\ g[i].hatching = HATCHING
        /\ g[i].naming_hint # <<>>
        /\ prerender.total_bytes_uploaded > 0

\* the draw operations, the other operations, and what each does to the counter
C5_DrawOps ==
    {"draw_polygon", "draw_polygons", "draw_line", "draw_rounded_line", "draw_circle",
     "GeomBatch::draw"}
C5_OtherOps ==
    {"clear", "fork", "fork_screenspace", "unfork", "enable_hatching", "disable_hatching",
     "upload"}

C5_CounterStep ==
    \A i \in Ctxs :
        /\ (\E op \in C5_DrawOps : StepOn(i, op)) =>
              /\ g'[i].num_draw_calls = g[i].num_draw_calls + 1
              /\ target'[i].num_draws = target[i].num_draws + 1
              /\ prerender'.num_uploads = prerender.num_uploads + 1
        /\ (\E op \in C5_OtherOps : StepOn(i, op)) =>
              /\ g'[i].num_draw_calls = g[i].num_draw_calls
              /\ target'[i].num_draws = target[i].num_draws

(* C5: the draw-call counter starts at 0 and always equals the number of
   draws issued on the frame; draw_polygon, draw_polygons, draw_line,
   draw_rounded_line, draw_circle and GeomBatch::draw each raise it by one
   and make one upload, whatever the list drawn; clear, fork,
   fork_screenspace, unfork, enable_hatching, disable_hatching and upload
   leave it unchanged. *)
C5_DrawCallCounter ==
    /\ [](\A i \in Ctxs :
            /\ g[i].num_draw_calls = target[i].num_draws
            /\ call[i].op = "new" => g[i].num_draw_calls = 0)
    /\ [][C5_CounterStep]_vars

\* a cleared frame on which a batch of several pairs was the second draw
C5_Witness ==
    \E i \in Ctxs :
        /\ call[i].op = "GeomBatch::draw"
        /\ target[i].cleared
        /\ g[i].num_draw_calls = 2
        /\ target[i].num_draws = 2

\* the calls that upload through upload_temporary, and through upload or
\* upload_borrowed
TransientOps ==
    {"draw_polygon", "draw_polygons", "draw_line", "draw_rounded_line", "draw_circle",
     "draw_arrow", "GeomBatch::draw", "Prerender::upload_temporary"}
PersistentOps == {"upload", "Prerender::upload", "Prerender::upload_borrowed"}

\* the bytes of a Drawable: vertex_buffer.get_size() + index_buffer.get_size()
DrawableBytes(d) == Len(d.vertex_buffer) * VertexSize + Len(d.index_buffer) * IndexSize

\* a persistent upload adds one to the upload count and the buffers' bytes to
\* the resident bytes; no step lowers either counter
C6_PersistentStep ==
    /\ \A i \in Ctxs :
          (\E op \in PersistentOps : StepOn(i, op)) =>
              /\ prerender'.num_uploads = prerender.num_uploads + 1
              /\ prerender'.total_bytes_uploaded =
                    prerender.total_bytes_uploaded + DrawableBytes(obj'[1])
    /\ prerender'.num_uploads >= prerender.num_uploads
    /\ prerender'.total_bytes_uploaded >= prerender.total_bytes_uploaded

(* C6 as stated: only persistent uploads raise the two counters, by one and
   by the buffers' bytes; a transient upload leaves both unchanged; neither
   counter ever decreases. *)
C6_OnlyPersistentUploadsCount ==
    [][/\ C6_PersistentStep
       /\ \A i \in Ctxs :
             ((\E op \in TransientOps : StepOn(i, op)) /\ call'[i].ok)
                 => prerender' = prerender]_vars

(* C6 amended: every upload, persistent or transient, raises the upload
   count by one; only a persistent upload raises the resident bytes, by the
   vertex buffer's size plus the index buffer's; a transient upload leaves
   the resident bytes unchanged; neither counter ever decreases. *)
C6_UploadCounters ==
    [][/\ C6_PersistentStep
       /\ \A i \in Ctxs :
             ((\E op \in TransientOps : StepOn(i, op)) /\ call'[i].ok)
                 => /\ prerender'.num_uploads = prerender.num_uploads + 1
                    /\ prerender'.total_bytes_uploaded = prerender.total_bytes_uploaded]_vars

\* a draw made after a persistent upload of a non-empty batch
C6_Witness ==
    \E i \in Ctxs :
        /\ call[i].op = "draw_polygon"
        /\ obj # <<>> /\ obj[1].permanent
        /\ prerender.total_bytes_uploaded = DrawableBytes(obj[1])
        /\ prerender.total_bytes_uploaded > 0
        /\ prerender.num_uploads = 2

\* the vertices, and the indices, of the first k polygons of a list
RECURSIVE VertexCount(_, _)
VertexCount(list, k) ==
    IF k = 0 THEN 0 ELSE VertexCount(list, k - 1) + Len(list[k][2].pts)
RECURSIVE IndexCount(_, _)
IndexCount(list, k) ==
    IF k = 0 THEN 0 ELSE IndexCount(list, k - 1) + Len(list[k][2].indices)

\* every triangle index of every polygon of the list is below the polygon's
\* own vertex count
WellFormed(list) ==
    \A k \in 1..Len(list) :
        \A j \in 1..Len(list[k][2].indices) :
            list[k][2].indices[j] < Len(list[k][2].pts)

\* context i's last call was an upload through the Prerender, whose Drawable
\* the caller holds
Uploaded(i) ==
    /\ call[i].op \in
          {"Prerender::upload", "Prerender::upload_borrowed", "Prerender::upload_temporary"}
    /\ obj # <<>>

(* C7: for a list of (fill, polygon) pairs whose polygons' indices are below
   their own vertex counts, one upload builds a vertex array holding the
   polygons' vertices in list order, as many as the polygons' vertex counts
   sum to, and an index array of as many indices as the polygons' index counts
   sum to, the k-th polygon's being its raw indices plus the vertex count of
   the polygons before it; every index is below the total vertex count. *)
C7_BuffersConcatenate ==
    \A i \in Ctxs :
        (Uploaded(i) /\ WellFormed(call[i].list)) =>
            LET list == call[i].list
                vertices == obj[1].vertex_buffer
                indices == obj[1].index_buffer
            IN  /\ Len(vertices) = VertexCount(list, Len(list))
                /\ Len(indices) = IndexCount(list, Len(list))
                /\ \A k \in 1..Len(list) :
                      /\ \A j \in 1..Len(list[k][2].pts) :
                            vertices[VertexCount(list, k - 1) + j].position =
                                <<AsF32(list[k][2].pts[j][1]), AsF32(list[k][2].pts[j][2])>>
                      /\ \A j \in 1..Len(list[k][2].indices) :
                            indices[IndexCount(list, k - 1) + j] =
                                list[k][2].indices[j] + VertexCount(list, k - 1)
                /\ \A n \in 1..Len(indices) : indices[n] < Len(vertices)

\* a square and then a triangle uploaded: the triangle's first index is 4
C7_Witness ==
    \E i \in Ctxs :
        /\ Uploaded(i)
        /\ Len(call[i].list) = 2
        /\ call[i].list[1][2] = Square
        /\ call[i].list[2][2] = Triangle
        /\ obj[1].index_buffer[7] = 4
        /\ Len(obj[1].vertex_buffer) = 7

\* the shader's reading of a style: a zero last component is a texture
Decode(style) == IF style[4] = 0 THEN "Texture" ELSE "RGBA"

(* C8: every vertex of a polygon with a solid fill gets the style
   (r, g, b, a), every vertex of one with a texture fill gets (id, u, v, 0),
   and the last component is zero for texture fills only, so that decoding a
   style by its last component gives back the kind of the fill, for every
   fill. *)
C8_StyleRoundTrip ==
    \A i \in Ctxs :
        Uploaded(i) =>
            LET list == call[i].list
                vertices == obj[1].vertex_buffer
            IN  \A k \in 1..Len(list) :
                    \A j \in 1..Len(list[k][2].pts) :
                        LET color == list[k][1]
                            style == vertices[VertexCount(list, k - 1) + j].style
                        IN  /\ color.kind = "RGBA" =>
                                  style = <<color.r, color.g, color.b, color.a>>
                            /\ color.kind = "Texture" =>
                                  style[1] = color.id /\ style[4] = 0
                            /\ Decode(style) = color.kind

(* C9: draw_arrow on a degenerate line hands the failure to its caller as an
   error: nothing is uploaded or drawn, the counter and the Uniform Block stay
   as they were, and the program goes on, the context open to further
   draws. *)
C9_DegenerateArrowIsAnError ==
    \A i \in Ctxs :
        (call[i].op = "draw_arrow" /\ call[i].degenerate) => ~panicked

\* the Uniform Block fork_screenspace installs on context i
ScreenspaceBlock(i) ==
    [transform |-> <<0, 0, 1>>, window |-> CanvasWindow(i, SCREENSPACE)]

\* the Canvases of contexts i and j differ in the camera at most
SameWindow(i, j) ==
    /\ canvas[i].window_width = canvas[j].window_width
    /\ canvas[i].window_height = canvas[j].window_height

\* the block after fork_screenspace, and what a draw does with it
C10_AfterForkScreenspace ==
    \A i \in Ctxs :
        call[i].op = "fork_screenspace" =>
            /\ g[i].uniforms = ScreenspaceBlock(i)
            /\ \A j \in Ctxs :
                  (call[j].op = "fork_screenspace" /\ SameWindow(i, j))
                      => g[j].uniforms = g[i].uniforms

C10_DrawStep ==
    \A i \in Ctxs :
        (g[i].uniforms = ScreenspaceBlock(i) /\ StepOn(i, "draw_polygon"))
            => /\ call'[i].passed = <<ScreenspaceBlock(i)>>
               /\ g'[i].uniforms = ScreenspaceBlock(i)

(* C10: after fork_screenspace the Uniform Block is transform (0, 0, 1) with
   the Canvas window dimensions and mode SCREENSPACE, whatever the camera,
   the hatching state and the forks before it, so that two contexts whose
   Canvases differ only in the camera hold the same block; a draw made with
   that block in place hands it to the GPU and leaves it in place. *)
C10_ScreenspaceIgnoresCamera ==
    /\ []C10_AfterForkScreenspace
    /\ [][C10_DrawStep]_vars

\* two contexts over different cameras, one hatched, one not: the first has
\* drawn in screen space, the second has just forked to it
C10_Witness ==
    /\ canvas[1].cam_x # canvas[2].cam_x
    /\ canvas[1].cam_zoom # canvas[2].cam_zoom
    /\ g[1].hatching = HATCHING /\ g[2].hatching = NO_HATCHING
    /\ call[1].op = "draw_polygon"
    /\ call[1].passed = <<ScreenspaceBlock(1)>>
    /\ call[2].op = "fork_screenspace"
    /\ g[2].uniforms = g[1].uniforms

====
